---- MODULE Spec2Model ----
(***************************************************************************)
(* A model of the 2D physics engine: the Body integrator (Body.js), the    *)
(* shapes (Circle, Polygon) and collision detection and resolution         *)
(* (Collision.js).                                                         *)
(*                                                                         *)
(* Numbers.  A JavaScript number is modelled as an extended rational       *)
(* [n, d]: n/d in lowest terms with d > 0, and d = 0 for the three         *)
(* non-finite values (1/0 = Infinity, -1/0 = -Infinity, 0/0 = NaN).        *)
(* Arithmetic is exact (no rounding) and there is no negative zero.        *)
(* Angles, angular velocities, angular accelerations and torques are       *)
(* measured in units of pi, so Math.PI is the number 1.                    *)
(***************************************************************************)
EXTENDS Integers, Sequences, FiniteSets, TLC

----------------------------------------------------------------------------
(* Integer helpers *)

Abs(i) == IF i < 0 THEN -i ELSE i

Sign(i) == IF i < 0 THEN -1 ELSE IF i > 0 THEN 1 ELSE 0

RECURSIVE GCD(_, _)
GCD(a, b) == IF b = 0 THEN a ELSE GCD(b, a % b)

RECURSIVE ISqrtIn(_, _, _)
ISqrtIn(k, lo, hi) ==
    IF lo >= hi THEN lo
    ELSE LET mid == (lo + hi + 1) \div 2
         IN  IF mid <= k \div mid THEN ISqrtIn(k, mid, hi) ELSE ISqrtIn(k, lo, mid - 1)

\* floor of the square root of a natural number
ISqrt(k) == IF k = 0 THEN 0 ELSE ISqrtIn(k, 1, k)

IsSquare(k) == k >= 0 /\ ISqrt(k) * ISqrt(k) = k

----------------------------------------------------------------------------
(* JavaScript numbers as extended rationals *)

Norm(n, d) ==
    IF d = 0 THEN [n |-> Sign(n), d |-> 0]
    ELSE LET g == GCD(Abs(n), Abs(d))
             s == Sign(d)
         IN  [n |-> (s * n) \div g, d |-> (s * d) \div g]

R(n, d) == Norm(n, d)
I(i) == [n |-> i, d |-> 1]

Zero == I(0)
One == I(1)
Two == I(2)
Half == R(1, 2)
Infinity == [n |-> 1, d |-> 0]
NaN == [n |-> 0, d |-> 0]

IsNaN(x) == x.d = 0 /\ x.n = 0
IsInf(x) == x.d = 0 /\ x.n # 0
IsFinite(x) == x.d # 0

Neg(x) == [n |-> -x.n, d |-> x.d]

\* x + y
Add(x, y) ==
    IF IsNaN(x) \/ IsNaN(y) THEN NaN
    ELSE IF IsInf(x) /\ IsInf(y) THEN (IF x.n = y.n THEN x ELSE NaN)
    ELSE IF IsInf(x) THEN x
    ELSE IF IsInf(y) THEN y
    ELSE LET g == GCD(x.d, y.d)
         IN  Norm(x.n * (y.d \div g) + y.n * (x.d \div g), x.d * (y.d \div g))

\* x - y
Sub(x, y) == Add(x, Neg(y))

\* x * y
Mul(x, y) ==
    IF IsNaN(x) \/ IsNaN(y) THEN NaN
    ELSE IF IsInf(x) \/ IsInf(y)
         THEN [n |-> Sign(x.n) * Sign(y.n), d |-> 0]
    ELSE LET g1 == GCD(Abs(x.n), y.d)
             g2 == GCD(Abs(y.n), x.d)
         IN  Norm((x.n \div g1) * (y.n \div g2), (x.d \div g2) * (y.d \div g1))

\* x / y
Div(x, y) ==
    IF IsNaN(x) \/ IsNaN(y) THEN NaN
    ELSE IF IsInf(y) THEN (IF IsInf(x) THEN NaN ELSE Zero)
    ELSE IF y.n = 0 THEN [n |-> Sign(x.n), d |-> 0]
    ELSE Mul(x, [n |-> Sign(y.n) * y.d, d |-> Abs(y.n)])

\* x < y (false when either is NaN)
Lt(x, y) ==
    IF IsNaN(x) \/ IsNaN(y) THEN FALSE
    ELSE IF IsInf(x) THEN x.n < 0 /\ ~(IsInf(y) /\ y.n < 0)
    ELSE IF IsInf(y) THEN y.n > 0
    ELSE Sign(Sub(x, y).n) < 0

\* x > y
Gt(x, y) == Lt(y, x)

\* x <= y, x >= y
Le(x, y) == ~IsNaN(x) /\ ~IsNaN(y) /\ ~Lt(y, x)
Ge(x, y) == Le(y, x)

\* Math.max(x, y), Math.min(x, y)
MathMax(x, y) == IF IsNaN(x) \/ IsNaN(y) THEN NaN ELSE IF Lt(x, y) THEN y ELSE x
MathMin(x, y) == IF IsNaN(x) \/ IsNaN(y) THEN NaN ELSE IF Lt(y, x) THEN y ELSE x

\* the integer part of a finite x, toward zero
Trunc(x) == I(Sign(x.n) * (Abs(x.n) \div x.d))

\* x % y: the remainder of the truncated division, with the sign of x
Rem(x, y) ==
    IF IsNaN(x) \/ IsNaN(y) \/ IsInf(x) THEN NaN
    ELSE IF IsInf(y) THEN x
    ELSE IF y.n = 0 THEN NaN
    ELSE Sub(x, Mul(y, Trunc(Div(x, y))))

\* Math.sqrt(x), for the x whose root is rational
HasSqrt(x) == IsFinite(x) => (x.n < 0 \/ (IsSquare(x.n) /\ IsSquare(x.d)))
MathSqrt(x) ==
    IF IsNaN(x) THEN NaN
    ELSE IF IsInf(x) THEN (IF x.n > 0 THEN Infinity ELSE NaN)
    ELSE IF x.n < 0 THEN NaN
    ELSE [n |-> ISqrt(x.n), d |-> ISqrt(x.d)]

MathPI == One
TwoPI == Mul(MathPI, Two)

----------------------------------------------------------------------------
(* Vector *)

Vec(x, y) == [x |-> x, y |-> y]
V(i, j) == Vec(I(i), I(j))
ZeroVec == V(0, 0)
FiniteVec(v) == IsFinite(v.x) /\ IsFinite(v.y)

\* Vector.sum(a, b), and a.add(b) seen as a value
VSum(a, b) == Vec(Add(a.x, b.x), Add(a.y, b.y))

\* Vector.sum(a, b, c)
VSum3(a, b, c) == VSum(VSum(a, b), c)

\* Vector.difference(a, b)
VDifference(a, b) == Vec(Sub(a.x, b.x), Sub(a.y, b.y))

\* Vector.dot(a, b)
VDot(a, b) == Add(Mul(a.x, b.x), Mul(a.y, b.y))

\* v.multipliedBy(scalar), v.dividedBy(scalar), v.inverse
multipliedBy(v, scalar) == Vec(Mul(v.x, scalar), Mul(v.y, scalar))
dividedBy(v, scalar) == Vec(Div(v.x, scalar), Div(v.y, scalar))
inverse(v) == Vec(Neg(v.x), Neg(v.y))

\* The components of a finite vector over their common denominator, and the
\* common factor of the two numerators.
CommonDen(v) == v.x.d * (v.y.d \div GCD(v.x.d, v.y.d))
NumX(v) == v.x.n * (CommonDen(v) \div v.x.d)
NumY(v) == v.y.n * (CommonDen(v) \div v.y.d)
CommonNum(v) == GCD(Abs(NumX(v)), Abs(NumY(v)))
ReducedSq(v) ==
    LET s == CommonNum(v)
    IN  (NumX(v) \div s) * (NumX(v) \div s) + (NumY(v) \div s) * (NumY(v) \div s)

\* v.magnitude = Math.sqrt(x^2 + y^2).  The common factor s/L of the two
\* components is taken out of the root, sqrt(x^2 + y^2) = (s/L) sqrt(X^2 + Y^2),
\* so that the squares stay small; the value is the same real number.
HasMagnitude(v) ==
    (IsFinite(v.x) /\ IsFinite(v.y) /\ CommonNum(v) # 0) => IsSquare(ReducedSq(v))
magnitude(v) ==
    IF IsNaN(v.x) \/ IsNaN(v.y) THEN NaN
    ELSE IF IsInf(v.x) \/ IsInf(v.y) THEN Infinity
    ELSE IF CommonNum(v) = 0 THEN Zero
    ELSE Mul(R(CommonNum(v), CommonDen(v)), MathSqrt(I(ReducedSq(v))))

\* Math.pow(v.magnitude, 2): the square of the root, x^2 + y^2 in exact
\* arithmetic, also when the root itself is irrational
magnitudePow2(v) == Add(Mul(v.x, v.x), Mul(v.y, v.y))

\* v.unit()
unit(v) == Vec(Div(v.x, magnitude(v)), Div(v.y, magnitude(v)))

\* v.magnitude = mag: both components scaled by mag / magnitude
setMagnitude(v, mag) ==
    LET factor == Div(mag, magnitude(v))
    IN  Vec(Mul(v.x, factor), Mul(v.y, factor))

----------------------------------------------------------------------------
(* State *)

VARIABLES
    body,     \* SpecBody: the body under integration (a Circle of Body.js)
    world,    \* SpecBody: the world the body belongs to: [gravity, force]
    timers,   \* SpecBody: the pending setTimeout callbacks, in scheduling order
    hist,     \* SpecBody: history: the body as constructed and what was called since
    bodyA,    \* SpecCollision: the first body of the pair
    bodyB,    \* SpecCollision: the second body of the pair
    ret,      \* SpecCollision: the last call and what it returned or threw
    pre       \* SpecCollision: the pair as it was before the last call

vars == <<body, world, timers, hist, bodyA, bodyB, ret, pre>>
bodyVars == <<body, world, timers, hist>>
collisionVars == <<bodyA, bodyB, ret, pre>>

----------------------------------------------------------------------------
(* Body (Body.js) and Circle (Circle.js) *)

\* new Circle(options): the Body constructor, then radius and rotationalInertia
Circle(options) ==
    LET mass == IF options.isStatic THEN Infinity ELSE options.mass
    IN  [type |-> "circle",
         position |-> options.position,
         angle |-> options.angle,
         velocity |-> options.velocity,
         angularVelocity |-> options.angularVelocity,
         acceleration |-> ZeroVec,
         angularAcceleration |-> Zero,
         mass |-> mass,
         force |-> options.force,
         torque |-> options.torque,
         isStatic |-> options.isStatic,
         radius |-> options.radius,
         rotationalInertia |-> Mul(Mul(Half, mass), Mul(options.radius, options.radius))]

\* Body.translate(translation)
translate(b, translation) == [b EXCEPT !.position = VSum(b.position, translation)]

\* The normalisation of Body.rotate, applied to the angle after "this.angle += angle".
\* "this.angle % Math.PI * 2" is (this.angle % Math.PI) * 2.
normalizeAngle(a) ==
    IF Gt(a, TwoPI) THEN Rem(a, TwoPI)
    ELSE IF Lt(a, Zero) THEN Add(TwoPI, Mul(Rem(a, MathPI), Two))
    ELSE a

\* Body.rotate(angle)
rotate(b, angle) == [b EXCEPT !.angle = normalizeAngle(Add(b.angle, angle))]

\* Body.updateAcceleration()
updateAcceleration(b, w) ==
    IF b.isStatic THEN b
    ELSE [b EXCEPT !.acceleration =
              dividedBy(VSum3(multipliedBy(w.gravity, b.mass), w.force, b.force), b.mass)]

\* Body.updateVelocity()
updateVelocity(b) == [b EXCEPT !.velocity = VSum(b.velocity, b.acceleration)]

\* Body.updatePosition()
updatePosition(b) == translate(b, b.velocity)

\* Body.updateAngularAcceleration()
updateAngularAcceleration(b) ==
    IF b.isStatic THEN b
    ELSE [b EXCEPT !.angularAcceleration = Div(b.torque, b.rotationalInertia)]

\* Body.updateAngularVelocity()
updateAngularVelocity(b) ==
    [b EXCEPT !.angularVelocity = Add(b.angularVelocity, b.angularAcceleration)]

\* Body.updateAngle()
updateAngle(b) == rotate(b, b.angularVelocity)

\* update() with the position moved before the velocity is updated
updatePositionFirst(b, w) ==
    updateAngle(updateAngularVelocity(updateAngularAcceleration(
        updateVelocity(updatePosition(updateAcceleration(b, w))))))

\* Body.update(): the six steps in order
update(b, w) ==
    updateAngle(updateAngularVelocity(updateAngularAcceleration(
        updatePosition(updateVelocity(updateAcceleration(b, w))))))

\* The body of Body.applyForce(force, timeout) that runs at once, and the
\* callback its timer runs later: self.applyForce(force.inverse)
addForce(b, force) == [b EXCEPT !.force = VSum(b.force, force)]
\* a timer that clears the whole accumulated force
forceTimeoutClears(b, force) == [b EXCEPT !.force = ZeroVec]
forceTimeout(b, force) == addForce(b, inverse(force))

\* The body of Body.applyTorque(force, radius, timeout) that runs at once, and
\* the callback its timer runs later: self.applyTorque(-force, radius)
addTorque(b, force, radius) == [b EXCEPT !.torque = Add(b.torque, Mul(force, radius))]
torqueTimeout(b, force, radius) == addTorque(b, Neg(force), radius)

----------------------------------------------------------------------------
(* The bodies of a colliding pair: Circle and Polygon over Body *)

\* new Circle(x, y, radius, options)
CircleAt(position, radius, options) ==
    [type |-> "circle",
     position |-> position,
     angle |-> Zero,
     velocity |-> options.velocity,
     mass |-> IF options.isStatic THEN Infinity ELSE options.mass,
     isStatic |-> options.isStatic,
     radius |-> radius]

RECURSIVE VSumAll(_)
VSumAll(vs) == IF Len(vs) = 0 THEN ZeroVec ELSE VSum(Head(vs), VSumAll(Tail(vs)))

\* Polygon.getCentroid(vertices)
getCentroid(vertices) == dividedBy(VSumAll(vertices), I(Len(vertices)))

\* closed[i], the vertices with the first one repeated at the end (0-based i)
Closed(vertices, i) == vertices[(i % Len(vertices)) + 1]

\* x_i * y_(i+1) - x_(i+1) * y_i
Shoelace(vertices, i) ==
    Sub(Mul(Closed(vertices, i).x, Closed(vertices, i + 1).y),
        Mul(Closed(vertices, i + 1).x, Closed(vertices, i).y))

\* sum(0, closed.length - 2, i => ...) of the three sums of getCenterOfMass
RECURSIVE AreaSum(_, _)
AreaSum(vertices, i) ==
    IF i < 0 THEN Zero ELSE Add(AreaSum(vertices, i - 1), Shoelace(vertices, i))

RECURSIVE MomentXSum(_, _)
MomentXSum(vertices, i) ==
    IF i < 0 THEN Zero
    ELSE Add(MomentXSum(vertices, i - 1),
             Mul(Add(Closed(vertices, i).x, Closed(vertices, i + 1).x),
                 Shoelace(vertices, i)))

RECURSIVE MomentYSum(_, _)
MomentYSum(vertices, i) ==
    IF i < 0 THEN Zero
    ELSE Add(MomentYSum(vertices, i - 1),
             Mul(Add(Closed(vertices, i).y, Closed(vertices, i + 1).y),
                 Shoelace(vertices, i)))

\* The shoelace formula of getCenterOfMass on the vertices as given
CenterOfMassOf(vertices) ==
    LET last == Len(vertices) - 1
        area == Mul(Half, AreaSum(vertices, last))
        k == Div(One, Mul(I(6), area))
    IN  Vec(Mul(k, MomentXSum(vertices, last)), Mul(k, MomentYSum(vertices, last)))

\* The common integer factor of all the coordinates' numerators
RECURSIVE CoordFactor(_)
CoordFactor(vertices) ==
    IF Len(vertices) = 0 THEN 0
    ELSE GCD(GCD(Abs(Head(vertices).x.n), Abs(Head(vertices).y.n)),
             CoordFactor(Tail(vertices)))

\* Polygon.getCenterOfMass(vertices).  The centre of mass of a polygon scaled
\* by k is k times that of the polygon, so the vertices' common factor is taken
\* out first: the products of the formula then stay small.
getCenterOfMass(vertices) ==
    LET k == CoordFactor(vertices)
    IN  IF k = 0 THEN CenterOfMassOf(vertices)
        ELSE multipliedBy(
                 CenterOfMassOf([i \in 1..Len(vertices) |-> dividedBy(vertices[i], I(k))]),
                 I(k))

\* new Polygon(vertices, options), for vertices given in the order sortVertices
\* puts them in (so that the sort leaves them as they are) and options.angle = 0
Polygon(sortedVertices, options) ==
    [type |-> "polygon",
     position |-> getCenterOfMass(sortedVertices),
     angle |-> Zero,
     velocity |-> options.velocity,
     mass |-> IF options.isStatic THEN Infinity ELSE options.mass,
     isStatic |-> options.isStatic,
     vertices |-> sortedVertices,
     centroid |-> getCentroid(sortedVertices)]

\* Polygon.getSides(vertices): side i joins vertex i to the next one around;
\* the sides hold the vertex objects themselves, so they follow the vertices
sides(polygon) ==
    [i \in 1..Len(polygon.vertices) |->
        [pointA |-> polygon.vertices[i],
         pointB |-> polygon.vertices[(i % Len(polygon.vertices)) + 1]]]

\* A translate that moves the vertices and the position and leaves the centroid
polygonTranslateOutline(polygon, translation) ==
    [polygon EXCEPT
        !.vertices = [i \in 1..Len(polygon.vertices) |-> VSum(polygon.vertices[i], translation)],
        !.position = VSum(polygon.position, translation)]

\* Polygon.translate(translation)
polygonTranslate(polygon, translation) ==
    [polygon EXCEPT
        !.vertices = [i \in 1..Len(polygon.vertices) |-> VSum(polygon.vertices[i], translation)],
        !.centroid = VSum(polygon.centroid, translation),
        !.position = VSum(polygon.position, translation)]

\* body.translate(translation), by the class of the body
translateBody(b, translation) ==
    IF b.type = "polygon" THEN polygonTranslate(b, translation)
    ELSE translate(b, translation)

\* Circle.boundingBox and Polygon.boundingBox
RECURSIVE MinOf(_)
MinOf(xs) == IF Len(xs) = 1 THEN xs[1] ELSE MathMin(Head(xs), MinOf(Tail(xs)))
RECURSIVE MaxOf(_)
MaxOf(xs) == IF Len(xs) = 1 THEN xs[1] ELSE MathMax(Head(xs), MaxOf(Tail(xs)))

\* The box of Polygon.boundingBox from its four extremes
BoxOf(minX, maxX, minY, maxY) ==
    [x |-> minX, y |-> minY, w |-> Sub(maxX, minX), h |-> Sub(maxY, minY)]

\* The box of Polygon.boundingBox from the vertices' coordinates
BoxAround(xs, ys) == BoxOf(MinOf(xs), MaxOf(xs), MinOf(ys), MaxOf(ys))

boundingBox(b) ==
    IF b.type = "circle"
    THEN [x |-> Sub(b.position.x, b.radius), y |-> Sub(b.position.y, b.radius),
          w |-> Mul(b.radius, Two), h |-> Mul(b.radius, Two)]
    ELSE BoxAround([i \in 1..Len(b.vertices) |-> b.vertices[i].x],
                   [i \in 1..Len(b.vertices) |-> b.vertices[i].y])

----------------------------------------------------------------------------
(* Collision.js *)

\* What a detection function returns or throws
False == [kind |-> "false"]
Undefined == [kind |-> "undefined"]
Vector(v) == [kind |-> "vector", v |-> v]
Throws(error) == [kind |-> "error", error |-> error]

\* detectBoxBox with only the tests that start from bbA
detectBoxBoxFromA(bbA, bbB) ==
    IF Gt(Add(bbA.x, bbA.w), bbB.x) THEN Gt(Add(bbA.y, bbA.h), bbB.y) ELSE FALSE

\* detectBoxBox(bbA, bbB)
detectBoxBox(bbA, bbB) ==
    IF Gt(Add(bbA.x, bbA.w), bbB.x)
    THEN IF Gt(Add(bbB.x, bbB.w), bbA.x)
         THEN IF Gt(Add(bbA.y, bbA.h), bbB.y)
              THEN Gt(Add(bbB.y, bbB.h), bbA.y)
              ELSE FALSE
         ELSE FALSE
    ELSE FALSE

\* detectCircleCircle from its three locals on
circleCircleReturn(diff, distance, radiiAdded) ==
    IF Gt(distance, radiiAdded) THEN False
    ELSE Vector(multipliedBy(unit(diff), Sub(radiiAdded, distance)))

\* detectCircleCircle from let distance = diff.magnitude on
circleCircleFrom(diff, radiiAdded) == circleCircleReturn(diff, magnitude(diff), radiiAdded)

\* detectCircleCircle with the difference taken from B's side
detectCircleCircleReversed(circleA, circleB) ==
    circleCircleFrom(VDifference(circleB.position, circleA.position),
                     Add(circleA.radius, circleB.radius))

\* detectCircleCircle(circleA, circleB)
detectCircleCircle(circleA, circleB) ==
    circleCircleFrom(VDifference(circleA.position, circleB.position),
                     Add(circleA.radius, circleB.radius))

\* getNormals(sides)
getNormals(ss) ==
    [i \in 1..Len(ss) |->
        LET axis == VDifference(ss[i].pointB, ss[i].pointA)
        IN  Vec(Neg(axis.y), axis.x)]

\* circleAxes(circle, polygon)
circleAxes(circle, polygon) ==
    [i \in 1..Len(polygon.vertices) |-> VDifference(circle.position, polygon.vertices[i])]

UnitAll(vs) == [i \in 1..Len(vs) |-> unit(vs[i])]

\* The axes one body contributes to getAxes
axesOf(b, other) ==
    IF b.type = "polygon" THEN UnitAll(getNormals(sides(b)))
    ELSE UnitAll(circleAxes(b, other))

\* getAxes(bodyA, bodyB): bodyA's axes, then bodyB's
getAxes(A, B) == axesOf(A, B) \o axesOf(B, A)

\* projectPolygon(polygon, axis)
Extent(projections) == [min |-> MinOf(projections), max |-> MaxOf(projections)]
projectPolygon(polygon, axis) ==
    Extent([i \in 1..Len(polygon.vertices) |-> VDot(polygon.vertices[i], axis)])

\* projectCircle(circle, axis)
projectCircle(circle, axis) ==
    [min |-> VDot(VDifference(circle.position, multipliedBy(axis, circle.radius)), axis),
     max |-> VDot(VSum(circle.position, multipliedBy(axis, circle.radius)), axis)]

project(b, axis) ==
    IF b.type = "polygon" THEN projectPolygon(b, axis) ELSE projectCircle(b, axis)

\* getPenetration(bodyA, bodyB, axis)
\* getPenetration from the two projections on
penetrationOf(projectionsA, projectionsB) ==
    IF Gt(projectionsA.min, projectionsB.min)
    THEN [body |-> "a", penetration |-> MathMax(Sub(projectionsB.max, projectionsA.min), Zero)]
    ELSE [body |-> "b", penetration |-> MathMax(Sub(projectionsA.max, projectionsB.min), Zero)]

getPenetration(A, B, axis) == penetrationOf(project(A, axis), project(B, axis))

\* let smallestPenetration = 10000000
SmallestPenetrationStart == 10000000

\* The loop written with <=, which keeps the last of the smallest penetrations
RECURSIVE SmallestPenetrationIndexLast(_, _, _, _)
SmallestPenetrationIndexLast(penetrations, i, smallestPenetration, smallestPenetrationIndex) ==
    IF i >= Len(penetrations) THEN smallestPenetrationIndex
    ELSE IF Le(penetrations[i + 1], smallestPenetration)
         THEN SmallestPenetrationIndexLast(penetrations, i + 1, penetrations[i + 1], i)
         ELSE SmallestPenetrationIndexLast(penetrations, i + 1, smallestPenetration,
                                           smallestPenetrationIndex)

\* The loop of separatingAxis that finds the smallest penetration, from index
\* i on (0-based); the index stays -1 when no penetration is below the start
RECURSIVE SmallestPenetrationIndex(_, _, _, _)
SmallestPenetrationIndex(penetrations, i, smallestPenetration, smallestPenetrationIndex) ==
    IF i >= Len(penetrations) THEN smallestPenetrationIndex
    ELSE IF Lt(penetrations[i + 1], smallestPenetration)
         THEN SmallestPenetrationIndex(penetrations, i + 1, penetrations[i + 1], i)
         ELSE SmallestPenetrationIndex(penetrations, i + 1, smallestPenetration,
                                       smallestPenetrationIndex)

\* separatingAxis(bodyA, bodyB)
\* if (bodies[smallestPenetrationIndex] === 'b') mtv.multiply(-1); return mtv
mtvToward(b, mtv) == Vector(IF b = "b" THEN multipliedBy(mtv, I(-1)) ELSE mtv)

\* separatingAxis from the end of its loop on; axes[-1] is undefined, and
\* reading its x throws a TypeError
mtvAt(axes, tmp, smallestPenetrationIndex) ==
    IF smallestPenetrationIndex = -1 THEN Throws("TypeError")
    ELSE mtvToward(tmp[smallestPenetrationIndex + 1].body,
                   setMagnitude(axes[smallestPenetrationIndex + 1],
                                tmp[smallestPenetrationIndex + 1].penetration))

\* separatingAxis from penetrations.includes(0) on
separatingAxisOver(axes, tmp, penetrations) ==
    IF \E i \in 1..Len(penetrations) : penetrations[i] = Zero THEN False
    ELSE mtvAt(axes, tmp,
               SmallestPenetrationIndex(penetrations, 0, I(SmallestPenetrationStart), -1))

\* separatingAxis from tmp.map(t => t.penetration) on
separatingAxisWith(axes, tmp) ==
    separatingAxisOver(axes, tmp, [i \in 1..Len(tmp) |-> tmp[i].penetration])

\* separatingAxis from axes.map(a => getPenetration(bodyA, bodyB, a)) on
separatingAxisAlong(A, B, axes) ==
    separatingAxisWith(axes, [i \in 1..Len(axes) |-> getPenetration(A, B, axes[i])])

\* separatingAxis(bodyA, bodyB)
separatingAxis(A, B) ==
    IF ~(A.type = "polygon" \/ B.type = "polygon")
    THEN Throws("One of the bodies must be a polygon to use the SAT")
    ELSE separatingAxisAlong(A, B, getAxes(A, B))

\* detectCollision that hands every pair to separatingAxis
detectCollisionBySAT(A, B) ==
    IF ~detectBoxBox(boundingBox(A), boundingBox(B)) THEN False
    ELSE separatingAxis(A, B)

\* detectCollision without the bounding-box test
detectCollisionNarrow(A, B) ==
    IF A.type = "circle" /\ B.type = "circle" THEN detectCircleCircle(A, B)
    ELSE IF A.type = "polygon" \/ B.type = "polygon" THEN separatingAxis(A, B)
    ELSE Undefined

\* detectCollision(bodyA, bodyB)
detectCollision(A, B) ==
    IF ~detectBoxBox(boundingBox(A), boundingBox(B)) THEN False
    ELSE IF A.type = "circle" /\ B.type = "circle" THEN detectCircleCircle(A, B)
    ELSE IF A.type = "polygon" \/ B.type = "polygon" THEN separatingAxis(A, B)
    ELSE Undefined

\* detectCollision with diff taken in place, circleA.position.subtract(
\* circleB.position), where detectCircleCircle has Vector.difference
detectionLeavesDiff(A, B) ==
    IF A.type = "circle" /\ B.type = "circle" /\ detectBoxBox(boundingBox(A), boundingBox(B))
    THEN [a |-> [A EXCEPT !.position = VDifference(A.position, B.position)], b |-> B]
    ELSE [a |-> A, b |-> B]

\* The two bodies after detectCollision(bodyA, bodyB).  The bounding boxes are
\* new objects; positions, vertices and the points of the sides are only
\* arguments of Vector.difference, Vector.sum and Vector.dot, which return new
\* values; the methods that write to their receiver (the magnitude setter and
\* multiply) are called on mtv, a new Vector
detectionLeaves(A, B) == [a |-> A, b |-> B]

\* getNewVelocities(bodyA, bodyB)
\* The new velocity with the body's own mass in f1, 2 * m / (m + mOther)
velocityAfterOwnMass(v, m, mOther, vDiff, xDiff) ==
    VDifference(v, multipliedBy(xDiff,
        Mul(Div(Mul(Two, m), Add(m, mOther)),
            Div(VDot(vDiff, xDiff), magnitudePow2(xDiff)))))

\* One body's new velocity: v - xDiff * (f1 * f2), with f1 = 2 * mOther / (m + mOther)
\* and f2 = Vector.dot(vDiff, xDiff) / Math.pow(xDiff.magnitude, 2)
velocityAfter(v, m, mOther, vDiff, xDiff) ==
    VDifference(v, multipliedBy(xDiff,
        Mul(Div(Mul(Two, mOther), Add(m, mOther)),
            Div(VDot(vDiff, xDiff), magnitudePow2(xDiff)))))

\* getNewVelocities from vDiff1 and xDiff1 on
newVelocitiesFrom(A, B, vDiff1, xDiff1) ==
    [a |-> velocityAfter(A.velocity, A.mass, B.mass, vDiff1, xDiff1),
     b |-> velocityAfter(B.velocity, B.mass, A.mass,
                         multipliedBy(vDiff1, I(-1)), multipliedBy(xDiff1, I(-1)))]

getNewVelocities(A, B) ==
    newVelocitiesFrom(A, B, VDifference(A.velocity, B.velocity),
                      VDifference(A.position, B.position))

\* The separation step of resolveCollision
separate(A, B, mtv) ==
    IF A.isStatic THEN [a |-> A, b |-> translateBody(B, multipliedBy(mtv, I(-1)))]
    ELSE [a |-> translateBody(A, mtv), b |-> B]

\* The velocity assignment written without the isStatic tests
assignVelocitiesToAll(A, B, velocitiesAfter) ==
    [a |-> [A EXCEPT !.velocity = velocitiesAfter.a],
     b |-> [B EXCEPT !.velocity = velocitiesAfter.b]]

\* The velocity assignment of resolveCollision
assignVelocities(A, B, velocitiesAfter) ==
    [a |-> IF ~A.isStatic THEN [A EXCEPT !.velocity = velocitiesAfter.a] ELSE A,
     b |-> IF ~B.isStatic THEN [B EXCEPT !.velocity = velocitiesAfter.b] ELSE B]

\* resolveCollision(bodyA, bodyB): the pair afterwards, and what detection gave
\* resolveCollision from let velocitiesAfter = getNewVelocities(bodyA, bodyB) on
resolveSeparated(moved, mtv) ==
    [pair |-> assignVelocities(moved.a, moved.b, getNewVelocities(moved.a, moved.b)),
     mtv |-> mtv]

\* resolveCollision with the velocities assigned before the test of mtv
resolveWithLateReturn(A, B, mtv) ==
    IF mtv.kind = "false"
    THEN [pair |-> assignVelocities(A, B, getNewVelocities(A, B)), mtv |-> mtv]
    ELSE IF mtv.kind # "vector" THEN [pair |-> [a |-> A, b |-> B], mtv |-> mtv]
    ELSE resolveSeparated(separate(A, B, mtv.v), mtv)

\* resolveCollision from if (!mtv) return on
resolveWith(A, B, mtv) ==
    IF mtv.kind # "vector" THEN [pair |-> [a |-> A, b |-> B], mtv |-> mtv]
    ELSE resolveSeparated(separate(A, B, mtv.v), mtv)

\* resolveCollision(bodyA, bodyB): the pair afterwards, and what detection gave
resolveCollision(A, B) == resolveWith(A, B, detectCollision(A, B))

----------------------------------------------------------------------------
(* SpecBody: one body, its world and its timers *)

MaxSteps == 2
MaxRotates == 1
MaxApplies == 2

Velocities == {ZeroVec, V(1, 0)}
AngularVelocities == {Zero, Half}
Angles == {Zero, R(3, 2)}
Gravities == {ZeroVec, V(0, 2)}
WorldForces == {ZeroVec, V(1, 0)}
Masses == {One, Two}
InitialForces == {ZeroVec, V(0, 1)}
InitialTorques == {Zero, I(-1)}
Forces == {V(-2, 1), V(1, 0)}
TorqueForces == {R(-1, 2)}
TorqueRadii == {Two}
Thetas == {I(2), I(-1), R(-5, 2), I(5)}

NoBody == [type |-> "none"]
NoRet == [op |-> "none", kind |-> "none"]

NoHistory(b) ==
    [init |-> b, steps |-> 0, applies |-> 0, rotates |-> 0, fired |-> 0,
     untimedForce |-> ZeroVec, untimedTorque |-> Zero]

NoCollision == bodyA = NoBody /\ bodyB = NoBody /\ ret = NoRet /\ pre = <<NoBody, NoBody>>

\* A body as constructed from its options, in a world
InitBody ==
    /\ \E isStatic \in BOOLEAN, v \in Velocities, av \in AngularVelocities,
          a \in Angles, m \in Masses, f \in InitialForces, t \in InitialTorques :
          body = Circle([position |-> ZeroVec, angle |-> a, velocity |-> v,
                         angularVelocity |-> av, mass |-> m, force |-> f,
                         torque |-> t, isStatic |-> isStatic, radius |-> Two])
    /\ \E g \in Gravities, wf \in WorldForces : world = [gravity |-> g, force |-> wf]
    /\ timers = <<>>
    /\ hist = NoHistory(body)
    /\ NoCollision

\* A body at rest as constructed, in a world with gravity
InitForce ==
    /\ \E isStatic \in BOOLEAN, m \in Masses, f \in InitialForces, t \in InitialTorques :
          body = Circle([position |-> ZeroVec, angle |-> Zero, velocity |-> ZeroVec,
                         angularVelocity |-> Zero, mass |-> m, force |-> f,
                         torque |-> t, isStatic |-> isStatic, radius |-> Two])
    /\ world = [gravity |-> V(0, 2), force |-> ZeroVec]
    /\ timers = <<>>
    /\ hist = NoHistory(body)
    /\ NoCollision

\* body.update(), as World.update runs it on every frame
Update ==
    /\ hist.steps < MaxSteps
    /\ body' = update(body, world)
    /\ hist' = [hist EXCEPT !.steps = @ + 1]
    /\ UNCHANGED <<world, timers>>
    /\ UNCHANGED collisionVars

\* body.rotate(theta)
Rotate ==
    /\ hist.rotates < MaxRotates
    /\ \E theta \in Thetas : body' = rotate(body, theta)
    /\ hist' = [hist EXCEPT !.rotates = @ + 1]
    /\ UNCHANGED <<world, timers>>
    /\ UNCHANGED collisionVars

\* body.applyForce(force, timeout)
ApplyForce ==
    /\ hist.applies < MaxApplies
    /\ \E force \in Forces, timed \in BOOLEAN :
          /\ body' = addForce(body, force)
          /\ timers' = IF timed THEN Append(timers, [kind |-> "force", force |-> force])
                       ELSE timers
          /\ hist' = [hist EXCEPT !.applies = @ + 1,
                                  !.untimedForce = IF timed THEN @ ELSE VSum(@, force)]
    /\ UNCHANGED world
    /\ UNCHANGED collisionVars

\* body.applyTorque(force, radius, timeout)
ApplyTorque ==
    /\ hist.applies < MaxApplies
    /\ \E force \in TorqueForces, radius \in TorqueRadii, timed \in BOOLEAN :
          /\ body' = addTorque(body, force, radius)
          /\ timers' = IF timed
                       THEN Append(timers, [kind |-> "torque", force |-> force,
                                            radius |-> radius])
                       ELSE timers
          /\ hist' = [hist EXCEPT !.applies = @ + 1,
                                  !.untimedTorque = IF timed THEN @
                                                    ELSE Add(@, Mul(force, radius))]
    /\ UNCHANGED world
    /\ UNCHANGED collisionVars

RemoveAt(s, i) == [j \in 1..(Len(s) - 1) |-> IF j < i THEN s[j] ELSE s[j + 1]]

\* A pending timer fires (timeouts differ, so in any order)
TimerFire ==
    /\ \E i \in 1..Len(timers) :
          /\ body' = IF timers[i].kind = "force"
                     THEN forceTimeout(body, timers[i].force)
                     ELSE torqueTimeout(body, timers[i].force, timers[i].radius)
          /\ timers' = RemoveAt(timers, i)
    /\ hist' = [hist EXCEPT !.fired = @ + 1]
    /\ UNCHANGED world
    /\ UNCHANGED collisionVars

NextBody == Update \/ Rotate

SpecBody == InitBody /\ [][NextBody]_vars

NextForce == Update \/ ApplyForce \/ ApplyTorque \/ TimerFire

SpecForce == InitForce /\ [][NextForce]_vars

----------------------------------------------------------------------------
(* SpecCollision: a pair of bodies and the calls of Collision.js on it *)

MaxCalls == 2

\* The vertices of the rectangle [x0, x1] x [y0, y1] in sortVertices' order
RectVertices(x0, y0, x1, y1) == <<Vec(x1, y0), Vec(x0, y0), Vec(x0, y1), Vec(x1, y1)>>
Rect(x0, y0, x1, y1) == RectVertices(I(x0), I(y0), I(x1), I(y1))

\* The vertices of a right triangle with sides 4, 3 and 5, in sortVertices' order
Triangle == <<V(4, 0), V(0, 0), V(0, 3)>>

CirclePositions == {V(0, 0), V(4, 3), V(8, 0), V(10, 0)}
Radii == {I(2), I(3), I(5)}
SmallPolygons == {Triangle, Rect(0, 0, 4, 3), Rect(2, 0, 6, 3), Rect(4, 0, 8, 3)}
BigPolygons ==
    LET S == SmallestPenetrationStart
    IN  {Rect(0, 0, 3 * S, 3 * S), Rect(S, S, 4 * S, 4 * S)}

SmallBodies(options) ==
    {CircleAt(p, r, options) : p \in CirclePositions, r \in Radii}
        \cup {Polygon(vs, options) : vs \in SmallPolygons}
BigBodies(options) == {Polygon(vs, options) : vs \in BigPolygons}

OptionsA == [velocity : {V(1, 0)}, mass : {I(3)}, isStatic : BOOLEAN]
OptionsB == [velocity : {V(-1, 2)}, mass : {One}, isStatic : BOOLEAN]

AllHaveMagnitude(vs) == \A i \in 1..Len(vs) : HasMagnitude(vs[i])

ExactAxes(b, other) ==
    IF b.type = "polygon" THEN AllHaveMagnitude(getNormals(sides(b)))
    ELSE IF other.type = "polygon" THEN AllHaveMagnitude(circleAxes(b, other))
    ELSE HasMagnitude(VDifference(b.position, other.position))

\* The pairs on which every square root the detection takes is rational
ExactPair(A, B) == ExactAxes(A, B) /\ ExactAxes(B, A)

InitCollision ==
    /\ \E oa \in OptionsA, ob \in OptionsB :
          \/ bodyA \in SmallBodies(oa) /\ bodyB \in SmallBodies(ob)
          \/ bodyA \in BigBodies(oa) /\ bodyB \in BigBodies(ob)
    /\ ExactPair(bodyA, bodyB)
    /\ ret = [op |-> "none", res |-> Undefined, calls |-> 0]
    /\ pre = <<bodyA, bodyB>>
    /\ body = NoBody /\ world = NoBody /\ timers = <<>> /\ hist = NoBody

Called(op, res) ==
    /\ ret.calls < MaxCalls
    /\ ExactPair(bodyA, bodyB)
    /\ ret' = [op |-> op, res |-> res, calls |-> ret.calls + 1]
    /\ pre' = <<bodyA, bodyB>>
    /\ UNCHANGED bodyVars

\* detectCollision(bodyA, bodyB)
DetectCollision ==
    /\ Called("detectCollision", detectCollision(bodyA, bodyB))
    /\ bodyA' = detectionLeaves(bodyA, bodyB).a
    /\ bodyB' = detectionLeaves(bodyA, bodyB).b

\* detectCircleCircle(bodyA, bodyB), called on two circles
DetectCircleCircle ==
    /\ bodyA.type = "circle" /\ bodyB.type = "circle"
    /\ Called("detectCircleCircle", detectCircleCircle(bodyA, bodyB))
    /\ UNCHANGED <<bodyA, bodyB>>

\* separatingAxis(bodyA, bodyB), called on any pair
SeparatingAxis ==
    /\ Called("separatingAxis", separatingAxis(bodyA, bodyB))
    /\ UNCHANGED <<bodyA, bodyB>>

\* resolveCollision(bodyA, bodyB)
ResolveCollision ==
    \E resolved \in {resolveCollision(bodyA, bodyB)} :
        /\ Called("resolveCollision", resolved.mtv)
        /\ bodyA' = resolved.pair.a
        /\ bodyB' = resolved.pair.b

NextCollision == DetectCollision \/ DetectCircleCircle \/ SeparatingAxis \/ ResolveCollision

SpecCollision == InitCollision /\ [][NextCollision]_vars

----------------------------------------------------------------------------
(* SpecBox: two bounding boxes (held in bodyA and bodyB) and detectBoxBox *)

MaxCoord == 2
MaxSize == 2

\* The boxes {x, y, w, h} with a corner on the grid and sides of 0..MaxSize
Boxes ==
    {[x |-> I(x), y |-> I(y), w |-> I(w), h |-> I(h)] :
        x \in 0..MaxCoord, y \in 0..MaxCoord, w \in 0..MaxSize, h \in 0..MaxSize}

InitBox ==
    /\ bodyA \in Boxes /\ bodyB \in Boxes
    /\ ret = [op |-> "none", res |-> Undefined, calls |-> 0]
    /\ pre = <<bodyA, bodyB>>
    /\ body = NoBody /\ world = NoBody /\ timers = <<>> /\ hist = NoBody

\* detectBoxBox(bodyA, bodyB)
DetectBoxBox ==
    /\ ret.op = "none"
    /\ ret' = [op |-> "detectBoxBox", res |-> detectBoxBox(bodyA, bodyB),
               calls |-> ret.calls + 1]
    /\ pre' = <<bodyA, bodyB>>
    /\ UNCHANGED <<bodyA, bodyB>>
    /\ UNCHANGED bodyVars

\* The caller hands the two boxes over in the other order
SwapBoxes ==
    /\ ret.op = "none"
    /\ bodyA' = bodyB /\ bodyB' = bodyA
    /\ UNCHANGED <<ret, pre>>
    /\ UNCHANGED bodyVars

NextBox == DetectBoxBox \/ SwapBoxes

SpecBox == InitBox /\ [][NextBox]_vars

----------------------------------------------------------------------------
(* SpecWorld: the worlds (in world) and the bodies they hold (in body).  A
   world is its bodies array, an array of references to bodies; a body is its
   tag and its world back-reference (0 for undefined). *)

NumWorlds == 2
NumBodies == 2
MaxBodies == 3

\* new World(options): Object.assign(this, defaults, options)
World(options) == [bodies |-> options.bodies]

\* World.addBody(body): the bodies array after this.bodies.push(body)
addBody(w, b) == [w EXCEPT !.bodies = Append(w.bodies, b)]

\* this.bodies.find(b => b.tag === tag): whether it finds a body (the value
\* found is the body object itself, not its index)
found(bodies, tags, tag) == \E i \in 1..Len(bodies) : tags[bodies[i]].tag = tag

\* World.removeBody(tag): if (index) this.bodies.splice(index, 1), where index
\* is the body found; an object is truthy, and as the start of splice it
\* converts to NaN and so to 0: the first element is the one removed
removeBody(w, tags, tag) ==
    IF found(w.bodies, tags, tag) THEN [w EXCEPT !.bodies = Tail(w.bodies)] ELSE w

\* How many times World.update calls update() on body b: once per reference
RECURSIVE updatesOf(_, _)
updatesOf(bodies, b) ==
    IF Len(bodies) = 0 THEN 0
    ELSE (IF Head(bodies) = b THEN 1 ELSE 0) + updatesOf(Tail(bodies), b)

WorldIds == 1..NumWorlds
BodyIds == 1..NumBodies

\* The bodies start with tags of their own, or body 2 with the tag of body 1
InitialTags == {[b \in BodyIds |-> b], [b \in BodyIds |-> IF b = 2 THEN 1 ELSE b]}

NoWorldCall == [op |-> "none", world |-> 0, tag |-> 0, before |-> <<>>, updates |-> <<>>]

\* Two worlds: the first constructed with options.bodies, which get their
\* back-reference from the constructor, the second with the default []
InitWorld ==
    /\ \E tags \in InitialTags, given \in {<<>>, <<1>>, <<1, 2>>} :
          /\ world = [w \in WorldIds |->
                         World([bodies |-> IF w = 1 THEN given ELSE <<>>])]
          /\ body = [b \in BodyIds |->
                        [tag |-> tags[b],
                         world |-> IF \E i \in 1..Len(given) : given[i] = b THEN 1 ELSE 0]]
    /\ hist = NoWorldCall
    /\ timers = <<>>
    /\ NoCollision

\* world.addBody(body)
AddBody ==
    \E w \in WorldIds, b \in BodyIds :
        /\ Len(world[w].bodies) < MaxBodies
        /\ world' = [world EXCEPT ![w] = addBody(world[w], b)]
        /\ body' = [body EXCEPT ![b].world = w]
        /\ hist' = [NoWorldCall EXCEPT !.op = "addBody", !.world = w]
        /\ UNCHANGED timers
        /\ UNCHANGED collisionVars

\* world.removeBody(tag)
RemoveBody ==
    \E w \in WorldIds, tag \in BodyIds :
        /\ world' = [world EXCEPT ![w] = removeBody(world[w], body, tag)]
        /\ hist' = [NoWorldCall EXCEPT !.op = "removeBody", !.world = w, !.tag = tag,
                                       !.before = world[w].bodies]
        /\ UNCHANGED <<body, timers>>
        /\ UNCHANGED collisionVars

\* world.update(): this.bodies.forEach(b => b.update())
WorldUpdate ==
    \E w \in WorldIds :
        /\ hist' = [NoWorldCall EXCEPT !.op = "update", !.world = w,
                        !.updates = [b \in BodyIds |-> updatesOf(world[w].bodies, b)]]
        /\ UNCHANGED <<body, world, timers>>
        /\ UNCHANGED collisionVars

NextWorld == AddBody \/ RemoveBody \/ WorldUpdate

SpecWorld == InitWorld /\ [][NextWorld]_vars

----------------------------------------------------------------------------
(* SpecLife: one body of Body.js from its construction on: its setters, its
   joining a world, and the integrator called at any time.  world is NoBody
   while the body's world property is undefined. *)

MaxLifeCalls == 3

\* new Body(options): a body that is no Circle has no radius, and its
\* rotationalInertia stays undefined.  undefined is held as NaN: it is falsy
\* as NaN is, and torque / undefined is NaN.
Body(options) ==
    [Circle(options) EXCEPT !.type = "body", !.radius = NaN, !.rotationalInertia = NaN]

\* if (x), for a number or undefined
Truthy(x) == ~IsNaN(x) /\ x # Zero

\* What a call leaves: the body, and the error it threw ("none" if it returned)
Returned(b) == [body |-> b, threw |-> "none"]
Threw(b, error) == [body |-> b, threw |-> error]

\* body.mass = newMass.  rotationalInertia is defined without writable: true,
\* so in the strict code of the class the assignment to it throws a
\* TypeError, before mass is assigned
massSetter(b, newMass) ==
    IF Truthy(b.rotationalInertia) THEN Threw(b, "TypeError")
    ELSE Returned([b EXCEPT !.mass = newMass])

\* body.isStatic = newVal, after its if (newVal) this.mass = Infinity
isStaticAfterMass(b, massSet, newVal) ==
    IF massSet.threw # "none" THEN Threw(b, massSet.threw)
    ELSE Returned([massSet.body EXCEPT !.isStatic = newVal])

\* body.isStatic = newVal
isStaticSetter(b, newVal) ==
    IF newVal THEN isStaticAfterMass(b, massSetter(b, Infinity), newVal)
    ELSE Returned([b EXCEPT !.isStatic = newVal])

\* body.update() of a body whose world is w or undefined: updateAcceleration
\* is the first step, and this.world.gravity throws on an undefined world
updateIn(b, w) ==
    IF ~b.isStatic /\ w = NoBody THEN Threw(b, "TypeError")
    ELSE Returned(update(b, w))

LifeMasses == {One, Two}
LifeVelocities == {ZeroVec, V(1, 0)}
LifeWorlds == {NoBody, [gravity |-> V(0, 1), force |-> ZeroVec]}

NoLifeCall(b) == [op |-> "none", threw |-> "none", calls |-> 0, before |-> b]

\* new Body(options) or new Circle(options), in a world or not yet in one
InitLife ==
    /\ \E isStatic \in BOOLEAN, m \in LifeMasses, v \in LifeVelocities, circle \in BOOLEAN :
          body = IF circle
                 THEN Circle([position |-> ZeroVec, angle |-> Zero, velocity |-> v,
                              angularVelocity |-> Zero, mass |-> m, force |-> ZeroVec,
                              torque |-> Zero, isStatic |-> isStatic, radius |-> Two])
                 ELSE Body([position |-> ZeroVec, angle |-> Zero, velocity |-> v,
                            angularVelocity |-> Zero, mass |-> m, force |-> ZeroVec,
                            torque |-> Zero, isStatic |-> isStatic, radius |-> Two])
    /\ world \in LifeWorlds
    /\ timers = <<>>
    /\ hist = NoLifeCall(body)
    /\ NoCollision

\* The body and the history after a call that left result
LifeCalled(op, result) ==
    /\ hist.calls < MaxLifeCalls
    /\ body' = result.body
    /\ hist' = [op |-> op, threw |-> result.threw, calls |-> hist.calls + 1, before |-> body]
    /\ UNCHANGED timers
    /\ UNCHANGED collisionVars

\* body.mass = newMass
SetMass ==
    /\ \E newMass \in LifeMasses : LifeCalled("mass", massSetter(body, newMass))
    /\ UNCHANGED world

\* body.isStatic = newVal
SetIsStatic ==
    /\ \E newVal \in BOOLEAN : LifeCalled("isStatic", isStaticSetter(body, newVal))
    /\ UNCHANGED world

\* world.addBody(body), for a body that is in no world yet
JoinWorld ==
    /\ world = NoBody
    /\ world' \in LifeWorlds \ {NoBody}
    /\ LifeCalled("addBody", Returned(body))

\* body.update()
UpdateBody ==
    /\ LifeCalled("update", updateIn(body, world))
    /\ UNCHANGED world

\* body.applyForce(force)
ApplyForceNow ==
    /\ LifeCalled("applyForce", Returned(addForce(body, V(0, 1))))
    /\ UNCHANGED world

\* body.applyTorque(force, radius)
ApplyTorqueNow ==
    /\ LifeCalled("applyTorque", Returned(addTorque(body, One, Two)))
    /\ UNCHANGED world

NextLife ==
    SetMass \/ SetIsStatic \/ JoinWorld \/ UpdateBody \/ ApplyForceNow \/ ApplyTorqueNow

SpecLife == InitLife /\ [][NextLife]_vars

----------------------------------------------------------------------------
(* SpecPolygon: a Polygon (bodyA) that is translated, by translate, by the
   position step of update and by resolveCollision against a second body
   (bodyB); pre keeps the two bodies as constructed *)

MaxMoves == 2

Translations == {V(1, 0), V(-2, 3)}

\* The positions on which resolveCollision is called: those whose coordinates
\* have a denominator of at most MaxDenominator, which keeps the products of
\* the detection within the integers of the model
MaxDenominator == 6
NearGrid(v) == FiniteVec(v) /\ v.x.d <= MaxDenominator /\ v.y.d <= MaxDenominator

InitPolygon ==
    /\ \E oa \in OptionsA, ob \in OptionsB :
          /\ bodyA \in {Polygon(vs, oa) : vs \in SmallPolygons}
          /\ bodyB \in {CircleAt(V(4, 3), I(3), ob), Polygon(Rect(2, 0, 6, 3), ob)}
    /\ ret = [op |-> "none", res |-> Undefined, calls |-> 0]
    /\ pre = <<bodyA, bodyB>>
    /\ body = NoBody /\ world = NoBody /\ timers = <<>> /\ hist = NoBody

\* The pair after a call that moved it
Moved(op, res, A, B) ==
    /\ ret' = [op |-> op, res |-> res, calls |-> ret.calls + 1]
    /\ bodyA' = A
    /\ bodyB' = B
    /\ UNCHANGED pre
    /\ UNCHANGED bodyVars

\* bodyA.translate(translation)
TranslatePolygon ==
    /\ ret.calls < MaxMoves
    /\ \E translation \in Translations :
           Moved("translate", Undefined, translateBody(bodyA, translation), bodyB)

\* bodyA.updatePosition(), the step of update() that moves the body:
\* this.translate(this.velocity)
UpdatePolygonPosition ==
    /\ ret.calls < MaxMoves
    /\ Moved("updatePosition", Undefined, translateBody(bodyA, bodyA.velocity), bodyB)

\* resolveCollision(bodyA, bodyB)
ResolvePolygon ==
    /\ ret.calls < MaxMoves
    /\ NearGrid(bodyA.position) /\ NearGrid(bodyB.position)
    /\ ExactPair(bodyA, bodyB)
    /\ \E resolved \in {resolveCollision(bodyA, bodyB)} :
           Moved("resolveCollision", resolved.mtv, resolved.pair.a, resolved.pair.b)

NextPolygon == TranslatePolygon \/ UpdatePolygonPosition \/ ResolvePolygon

SpecPolygon == InitPolygon /\ [][NextPolygon]_vars

----------------------------------------------------------------------------
(* SpecSort: an array of vertices (bodyA) and Polygon.sortVertices on it *)

\* Where v.angle = Math.atan2(-v.y, v.x), brought into [0, 2 pi), lies:
\* 0 for the angle 0 (also of the zero vector), 1 inside (0, pi), 2 for pi,
\* 3 inside (pi, 2 pi)
AngleClass(v) ==
    IF Lt(v.y, Zero) THEN 1
    ELSE IF Gt(v.y, Zero) THEN 3
    ELSE IF Lt(v.x, Zero) THEN 2
    ELSE 0

\* a.angle - b.angle < 0, for vectors of finite components: by their classes,
\* and inside a class by the side of a that b is on
AngleLt(a, b) ==
    IF AngleClass(a) # AngleClass(b) THEN AngleClass(a) < AngleClass(b)
    ELSE IF AngleClass(a) = 0 \/ AngleClass(a) = 2 THEN FALSE
    ELSE Gt(Sub(Mul(a.y, b.x), Mul(a.x, b.y)), Zero)

\* Array.prototype.sort with the comparator (a, b) => a.angle - b.angle: the
\* sort is stable, so an element goes behind the elements it compares equal to
RECURSIVE InsertByAngle(_, _)
InsertByAngle(sorted, v) ==
    IF Len(sorted) = 0 THEN <<v>>
    ELSE IF AngleLt(v, Head(sorted)) THEN <<v>> \o sorted
    ELSE <<Head(sorted)>> \o InsertByAngle(Tail(sorted), v)

RECURSIVE SortByAngle(_, _)
SortByAngle(vs, n) ==
    IF n = 0 THEN <<>> ELSE InsertByAngle(SortByAngle(vs, n - 1), vs[n])

\* sortVertices from relVertices.sort(...) on
sortRelVertices(relVertices, centroid) ==
    [i \in 1..Len(relVertices) |->
        VSum(SortByAngle(relVertices, Len(relVertices))[i], centroid)]

\* Polygon.sortVertices(vertices, centroid)
sortVertices(vertices, centroid) ==
    sortRelVertices([i \in 1..Len(vertices) |-> VDifference(vertices[i], centroid)], centroid)

\* The arrays with the same elements as vs, in every order
Reordered(vs) == {[i \in 1..Len(vs) |-> vs[p[i]]] : p \in Permutations(1..Len(vs))}

\* Vertex sets: a triangle, a rectangle, a kite, and a dart whose vertices
\* (2, 0) and (4, 0) lie on one ray from its centroid (0, 0)
Kite == <<V(3, 0), V(0, 2), V(-1, 0), V(0, -2)>>
Dart == <<V(2, 0), V(-3, -3), V(4, 0), V(-3, 3)>>
VertexSets == {Triangle, Rect(0, 0, 4, 3), Kite, Dart}

InitSort ==
    /\ \E vs \in VertexSets : bodyA \in Reordered(vs)
    /\ bodyB = NoBody
    /\ ret = [op |-> "none", res |-> Undefined, calls |-> 0]
    /\ pre = <<bodyA, bodyB>>
    /\ body = NoBody /\ world = NoBody /\ timers = <<>> /\ hist = NoBody

\* Polygon.sortVertices(vertices, Polygon.getCentroid(vertices)), as the
\* constructor calls it
SortVertices ==
    /\ ret.op = "none"
    /\ ret' = [op |-> "sortVertices", res |-> sortVertices(bodyA, getCentroid(bodyA)),
               calls |-> 1]
    /\ UNCHANGED <<bodyA, bodyB, pre>>
    /\ UNCHANGED bodyVars

NextSort == SortVertices

SpecSort == InitSort /\ [][NextSort]_vars

----------------------------------------------------------------------------
(* SpecGravity: two bodies of Body.js (bodyA, bodyB) of different masses, each
   in a world of the same gravity (world), updated frame by frame together.
   Here every arithmetic operation rounds its result as IEEE 754 does, to the
   nearest number of MantissaBits significant bits, ties to even (binary64 has
   53; the exponent range is left unbounded). *)

MantissaBits == 4
MaxFrames == 2

RECURSIVE Pow2(_)
Pow2(e) == IF e = 0 THEN One ELSE IF e > 0 THEN Mul(Two, Pow2(e - 1)) ELSE Div(Pow2(e + 1), Two)

\* The binary exponent of a finite positive x: the e with 2^e <= x < 2^(e+1)
RECURSIVE Exponent(_)
Exponent(x) ==
    IF Ge(x, Two) THEN Exponent(Div(x, Two)) + 1
    ELSE IF Lt(x, One) THEN Exponent(Mul(x, Two)) - 1
    ELSE 0

\* n/d rounded to an integer, halves to the even neighbour
RoundHalfEven(n, d) ==
    LET q == n \div d
        r == n % d
    IN  IF 2 * r > d \/ (2 * r = d /\ q % 2 = 1) THEN q + 1 ELSE q

RoundedAt(x, quantum) ==
    Mul(I(RoundHalfEven(Div(x, quantum).n, Div(x, quantum).d)), quantum)

RoundedPositive(x) == RoundedAt(x, Pow2(Exponent(x) - MantissaBits + 1))

\* The number a JavaScript operation with the exact result x returns
Rounded(x) ==
    IF ~IsFinite(x) \/ x = Zero THEN x
    ELSE IF x.n < 0 THEN Neg(RoundedPositive(Neg(x)))
    ELSE RoundedPositive(x)

RoundedVec(v) == Vec(Rounded(v.x), Rounded(v.y))

\* Vector.sum(a, b, c): x and y start at 0 and take one vector after another
sumRounded(a, b, c) ==
    RoundedVec(VSum(RoundedVec(VSum(RoundedVec(VSum(ZeroVec, a)), b)), c))

\* Body.updateAcceleration(), Body.updateVelocity() and Body.updatePosition()
\* with every operation rounded
updateAccelerationRounded(b, w) ==
    IF b.isStatic THEN b
    ELSE [b EXCEPT !.acceleration =
              RoundedVec(dividedBy(sumRounded(RoundedVec(multipliedBy(w.gravity, b.mass)),
                                              w.force, b.force),
                                   b.mass))]

updateVelocityRounded(b) ==
    [b EXCEPT !.velocity = RoundedVec(VSum(b.velocity, b.acceleration))]

updatePositionRounded(b) ==
    [b EXCEPT !.position = RoundedVec(VSum(RoundedVec(VSum(ZeroVec, b.position)), b.velocity))]

\* Body.update() up to the position; the angular steps follow and leave
\* position and velocity alone
updateRounded(b, w) ==
    updateAngle(updateAngularVelocity(updateAngularAcceleration(
        updatePositionRounded(updateVelocityRounded(updateAccelerationRounded(b, w))))))

\* Numbers of MantissaBits significant bits
GravityComponents == {Zero, One, Two, R(5, 4), R(3, 2), R(13, 8), R(15, 8), R(-7, 4)}
GravityMasses == {One, Two, I(3), I(5), R(1, 2)}

InitGravity ==
    /\ \E gx \in {Zero, One}, gy \in GravityComponents :
          world = [gravity |-> Vec(gx, gy), force |-> ZeroVec]
    /\ \E v \in Velocities, mA \in GravityMasses :
       \E mB \in GravityMasses \ {mA} :
          /\ bodyA = Circle([position |-> ZeroVec, angle |-> Zero, velocity |-> v,
                             angularVelocity |-> Zero, mass |-> mA, force |-> ZeroVec,
                             torque |-> Zero, isStatic |-> FALSE, radius |-> Two])
          /\ bodyB = Circle([position |-> ZeroVec, angle |-> Zero, velocity |-> v,
                             angularVelocity |-> Zero, mass |-> mB, force |-> ZeroVec,
                             torque |-> Zero, isStatic |-> FALSE, radius |-> Two])
    /\ ret = [op |-> "none", frames |-> 0]
    /\ pre = <<bodyA, bodyB>>
    /\ body = NoBody /\ timers = <<>> /\ hist = NoBody

\* One frame: World.update() of each body's world runs the body's update()
UpdateFrame ==
    /\ ret.frames < MaxFrames
    /\ bodyA' = updateRounded(bodyA, world)
    /\ bodyB' = updateRounded(bodyB, world)
    /\ ret' = [op |-> "update", frames |-> ret.frames + 1]
    /\ UNCHANGED <<world, pre>>
    /\ UNCHANGED <<body, timers, hist>>

NextGravity == UpdateFrame

SpecGravity == InitGravity /\ [][NextGravity]_vars

----------------------------------------------------------------------------
(* SpecList: the Body that keeps its forces and torques in lists (body), and
   the timers of applyForce and applyTorque (timers).  A force is a Vector
   object, named here by its identity; a torque is a number. *)

MaxListApplies == 3

\* Array.prototype.indexOf(x): the 0-based index of the first element that is
\* x (the same object, or the same number), or -1
indexOf(list, x) ==
    IF \E i \in 1..Len(list) : list[i] = x
    THEN (CHOOSE i \in 1..Len(list) :
             /\ list[i] = x
             /\ \A j \in 1..(i - 1) : list[j] # x) - 1
    ELSE -1
\* indexOf of a number: NaN is equal to nothing
indexOfNumber(list, x) == IF IsNaN(x) THEN -1 ELSE indexOf(list, x)

\* What Array.prototype.splice(start) leaves in the array: with no delete
\* count it removes every element from start on; a negative start counts
\* from the end
spliceStart(len, start) ==
    IF start < 0 THEN (IF len + start < 0 THEN 0 ELSE len + start)
    ELSE IF start > len THEN len ELSE start
splice(list, start) == SubSeq(list, 1, spliceStart(Len(list), start))

\* Body.applyForce(force, timeout): the push, and the callback of its timer
pushForce(b, force) == [b EXCEPT !.forces = Append(b.forces, force)]
forceExpiry(b, force) == [b EXCEPT !.forces = splice(b.forces, indexOf(b.forces, force))]

\* Body.applyTorque(force, radius, timeout): the push, and the callback of its timer
pushTorque(b, force, radius) == [b EXCEPT !.torques = Append(b.torques, Mul(force, radius))]
torqueExpiry(b, torque) ==
    [b EXCEPT !.torques = splice(b.torques, indexOfNumber(b.torques, torque))]

ForceObjects == {"F", "G"}
ListTorqueForces == {R(-1, 2), One}

NoListCall(b) == [op |-> "none", entry |-> "none", applies |-> 0, before |-> b]

\* new Body(x, y, options): the lists start empty
InitList ==
    /\ body = [type |-> "body", forces |-> <<>>, torques |-> <<>>]
    /\ timers = <<>>
    /\ hist = NoListCall(body)
    /\ world = NoBody
    /\ NoCollision

\* body.applyForce(force, timeout)
ApplyForceToList ==
    /\ hist.applies < MaxListApplies
    /\ \E force \in ForceObjects, timed \in BOOLEAN :
          /\ body' = pushForce(body, force)
          /\ timers' = IF timed THEN Append(timers, [kind |-> "force", entry |-> force])
                       ELSE timers
          /\ hist' = [op |-> "applyForce", entry |-> force, applies |-> hist.applies + 1,
                      before |-> body]
    /\ UNCHANGED world
    /\ UNCHANGED collisionVars

\* body.applyTorque(force, radius, timeout)
ApplyTorqueToList ==
    /\ hist.applies < MaxListApplies
    /\ \E force \in ListTorqueForces, radius \in TorqueRadii, timed \in BOOLEAN :
          /\ body' = pushTorque(body, force, radius)
          /\ timers' = IF timed
                       THEN Append(timers, [kind |-> "torque", entry |-> Mul(force, radius)])
                       ELSE timers
          /\ hist' = [op |-> "applyTorque", entry |-> Mul(force, radius),
                      applies |-> hist.applies + 1, before |-> body]
    /\ UNCHANGED world
    /\ UNCHANGED collisionVars

\* The timer of an applyForce fires (timeouts differ, so in any order)
ForceTimerFire ==
    /\ \E i \in 1..Len(timers) :
          /\ timers[i].kind = "force"
          /\ body' = forceExpiry(body, timers[i].entry)
          /\ timers' = RemoveAt(timers, i)
          /\ hist' = [hist EXCEPT !.op = "forceTimer", !.entry = timers[i].entry,
                                  !.before = body]
    /\ UNCHANGED world
    /\ UNCHANGED collisionVars

\* The timer of an applyTorque fires
TorqueTimerFire ==
    /\ \E i \in 1..Len(timers) :
          /\ timers[i].kind = "torque"
          /\ body' = torqueExpiry(body, timers[i].entry)
          /\ timers' = RemoveAt(timers, i)
          /\ hist' = [hist EXCEPT !.op = "torqueTimer", !.entry = timers[i].entry,
                                  !.before = body]
    /\ UNCHANGED world
    /\ UNCHANGED collisionVars

NextList == ApplyForceToList \/ ApplyTorqueToList \/ ForceTimerFire \/ TorqueTimerFire

SpecList == InitList /\ [][NextList]_vars

----------------------------------------------------------------------------
(* SpecSAT: a pair of polygons (bodyA, bodyB) and the detection of
   Collision.js on it: rectangles, among them pairs that overlap by the same
   amount along x and along y, and polygons as large as the value the search
   for the smallest penetration starts from *)

MaxOffset == 3

RectanglesA == {Rect(0, 0, 4, 4), Rect(0, 0, 4, 3)}
RectanglesB == {Rect(x, y, x + 4, y + 3) : x, y \in 0..MaxOffset}

\* A triangle with sides in the ratio 3 : 4 : 5 and its right angle at the
\* origin, as the constructor orders it: its height on the hypotenuse, 9.6 * s,
\* is below 10 * s and its legs are above
CornerTriangle(s) == <<V(16 * s, 0), V(0, 0), V(0, 12 * s)>>

LargePolygons == BigPolygons \cup {CornerTriangle(SmallestPenetrationStart \div 10)}

InitSAT ==
    /\ \E oa \in OptionsA, ob \in OptionsB :
          \E large \in BOOLEAN :
             /\ bodyA \in {Polygon(vs, oa) : vs \in IF large THEN LargePolygons ELSE RectanglesA}
             /\ bodyB \in {Polygon(vs, ob) : vs \in IF large THEN LargePolygons ELSE RectanglesB}
    /\ ret = [op |-> "none", res |-> Undefined, calls |-> 0]
    /\ pre = <<bodyA, bodyB>>
    /\ body = NoBody /\ world = NoBody /\ timers = <<>> /\ hist = NoBody

NextSAT == SeparatingAxis \/ DetectCollision

SpecSAT == InitSAT /\ [][NextSAT]_vars

----------------------------------------------------------------------------
(* SpecEngine: an Engine (world holds its fields), the frame callbacks it has
   requested and that have not run yet (timers), and the animation frames of
   the browser.  An animation frame runs the callbacks pending when it
   starts; a callback requested during a frame runs in the next one. *)

MaxEngineCalls == 5
MaxEngineFrames == 3

\* new Engine()
Engine == [go |-> FALSE, started |-> FALSE]

\* What Engine.update() requests: a frame callback for update while go is set
requested(engine) == IF engine.go THEN <<"update">> ELSE <<>>

\* The callbacks requested by the n calls of update() that one frame runs
RECURSIVE requestedBy(_, _)
requestedBy(engine, n) ==
    IF n = 0 THEN <<>> ELSE requested(engine) \o requestedBy(engine, n - 1)

\* Engine.run(): the engine's fields afterwards
run(engine) == [go |-> TRUE, started |-> TRUE]

\* Engine.pause()
pause(engine) == [engine EXCEPT !.go = FALSE]

NoEngineCall == [op |-> "none", calls |-> 0, frames |-> 0, updates |-> 0]

InitEngine ==
    /\ world = Engine
    /\ timers = <<>>
    /\ hist = NoEngineCall
    /\ body = NoBody
    /\ NoCollision

\* engine.run(): sets go and calls update(), which updates every world and
\* requests a frame
EngineRun ==
    /\ hist.calls < MaxEngineCalls
    /\ world' = run(world)
    /\ timers' = timers \o requested(run(world))
    /\ hist' = [hist EXCEPT !.op = "run", !.calls = @ + 1, !.updates = 1]
    /\ UNCHANGED body
    /\ UNCHANGED collisionVars

\* engine.pause()
EnginePause ==
    /\ hist.calls < MaxEngineCalls
    /\ world' = pause(world)
    /\ hist' = [hist EXCEPT !.op = "pause", !.calls = @ + 1, !.updates = 0]
    /\ UNCHANGED <<body, timers>>
    /\ UNCHANGED collisionVars

\* An animation frame: every pending callback runs self.update(), which
\* updates every world and, while go is set, requests the next frame
AnimationFrame ==
    /\ hist.frames < MaxEngineFrames
    /\ Len(timers) > 0
    /\ timers' = requestedBy(world, Len(timers))
    /\ hist' = [hist EXCEPT !.op = "frame", !.frames = @ + 1, !.updates = Len(timers)]
    /\ UNCHANGED <<body, world>>
    /\ UNCHANGED collisionVars

NextEngine == EngineRun \/ EnginePause \/ AnimationFrame

SpecEngine == InitEngine /\ [][NextEngine]_vars

----------------------------------------------------------------------------
(* Claims about the integrator *)

\* C1 (as claimed): in every reachable state, after any rotate(theta) and any
\* update(), the body's angle satisfies 0 <= angle < 2*pi.
C1_AngleInRange == Le(Zero, body.angle) /\ Lt(body.angle, TwoPI)

NothingApplied ==
    /\ hist.init.force = ZeroVec /\ hist.init.torque = Zero
    /\ hist.applies = 0 /\ hist.rotates = 0

\* C2 (as claimed): a static body with no applied force or torque, whatever its
\* initial velocity and angular velocity, has after any number of update() calls
\* the position, angle, velocity and angular velocity it was constructed with.
C2_StaticBodyUnchanged ==
    (body.isStatic /\ NothingApplied) =>
        /\ body.position = hist.init.position
        /\ body.angle = hist.init.angle
        /\ body.velocity = hist.init.velocity
        /\ body.angularVelocity = hist.init.angularVelocity

\* A dynamic body starting at rest, with zero local and zero world force
FreeFall ==
    /\ ~body.isStatic
    /\ hist.init.velocity = ZeroVec
    /\ hist.init.force = ZeroVec
    /\ world.force = ZeroVec

\* C5 (as claimed): after N update() calls a free body under gravity g has
\* velocity N*g and position = initial position + g*N*(N-1)/2.
C5_RecurrenceAsClaimed ==
    FreeFall =>
        /\ body.velocity = multipliedBy(world.gravity, I(hist.steps))
        /\ body.position =
               VSum(hist.init.position,
                    multipliedBy(world.gravity, R(hist.steps * (hist.steps - 1), 2)))

\* C5 (amended): after N update() calls a free body under gravity g has
\* velocity N*g and position = initial position + g*N*(N+1)/2, the velocity
\* being updated before the position in each step.
C5_Recurrence ==
    FreeFall =>
        /\ body.velocity = multipliedBy(world.gravity, I(hist.steps))
        /\ body.position =
               VSum(hist.init.position,
                    multipliedBy(world.gravity, R(hist.steps * (hist.steps + 1), 2)))

\* C5 witness: a free body of mass 2 under non-zero gravity after two updates
C5_Witness ==
    /\ FreeFall /\ hist.steps >= 2
    /\ world.gravity # ZeroVec /\ body.mass = Two
    /\ body.position # hist.init.position

RECURSIVE PendingForce(_)
PendingForce(ts) ==
    IF Len(ts) = 0 THEN ZeroVec
    ELSE VSum(IF Head(ts).kind = "force" THEN Head(ts).force ELSE ZeroVec,
              PendingForce(Tail(ts)))

RECURSIVE PendingTorque(_)
PendingTorque(ts) ==
    IF Len(ts) = 0 THEN Zero
    ELSE Add(IF Head(ts).kind = "torque" THEN Mul(Head(ts).force, Head(ts).radius)
             ELSE Zero,
             PendingTorque(Tail(ts)))

\* C6: for every interleaving of applyForce, applyTorque, update() and timer
\* firings, the accumulated force equals its initial value plus the
\* contributions applied without a timeout plus those whose timer is still
\* pending, and the torque likewise; so once all timers have fired only the
\* untimed contributions remain.
C6_TimedExpiry ==
    /\ body.force = VSum3(hist.init.force, hist.untimedForce, PendingForce(timers))
    /\ body.torque = Add(Add(hist.init.torque, hist.untimedTorque), PendingTorque(timers))

\* C6 witness: after an update, one timed force has expired while another
\* timed contribution is still pending
C6_Witness ==
    /\ hist.fired > 0 /\ hist.steps > 0
    /\ \E i \in 1..Len(timers) : timers[i].kind = "force"
    /\ body.force # hist.init.force

----------------------------------------------------------------------------
(* Claims about Collision.js *)

\* The last call was op, made on the pair pre
CalledOn(op) == ret.op = op
WereCircles == pre[1].type = "circle" /\ pre[2].type = "circle"
HadPolygon == pre[1].type = "polygon" \/ pre[2].type = "polygon"
Resolved == CalledOn("resolveCollision") /\ ret.res.kind = "vector"

\* C3: resolveCollision never changes the position of a static body: after the
\* call on a colliding pair, each body that was static (A only, B only, or
\* both) has the position it had before the call.
C3_StaticPositionKept ==
    Resolved =>
        /\ pre[1].isStatic => bodyA.position = pre[1].position
        /\ pre[2].isStatic => bodyB.position = pre[2].position

\* C4: resolveCollision never writes the velocity of a static body: after the
\* call on a colliding pair, each body with isStatic = true has the velocity it
\* had before, whatever the elastic formula computes for it.
C4_StaticVelocityKept ==
    Resolved =>
        /\ pre[1].isStatic => bodyA.velocity = pre[1].velocity
        /\ pre[2].isStatic => bodyB.velocity = pre[2].velocity

\* A colliding pair of two static bodies was resolved: the formula's output
\* for A, (2 * Infinity) / (Infinity + Infinity) = NaN, is not A's velocity
C4_Witness ==
    /\ Resolved
    /\ pre[1].isStatic /\ pre[2].isStatic
    /\ IsNaN(getNewVelocities(bodyA, bodyB).a.x)
    /\ bodyA.velocity = pre[1].velocity /\ ~IsNaN(bodyA.velocity.x)

\* The distance of the centres and the sum of the radii of the circles of pre
CentreDiff == VDifference(pre[1].position, pre[2].position)
CentreDistance == magnitude(CentreDiff)
RadiiAdded == Add(pre[1].radius, pre[2].radius)

\* C7: exactly touching circles do not collide: for two circles whose centre
\* distance equals the sum of their radii, in any direction, detectCollision
\* gives false.
C7_TouchingCirclesApart ==
    (CalledOn("detectCollision") /\ WereCircles /\ CentreDistance = RadiiAdded)
        => ret.res = False

\* C8: for two circles with distinct centres at distance dist < R = radiusA +
\* radiusB, detection returns a vector pointing from B's centre toward A's
\* centre, of magnitude R - dist; translating A by it leaves the centres
\* exactly R apart.
C8_CircleCircleMTV ==
    (/\ CalledOn("detectCircleCircle") \/ CalledOn("detectCollision")
     /\ WereCircles
     /\ pre[1].position # pre[2].position
     /\ Lt(CentreDistance, RadiiAdded))
        => /\ ret.res.kind = "vector"
           /\ magnitude(ret.res.v) = Sub(RadiiAdded, CentreDistance)
           /\ unit(ret.res.v) = unit(CentreDiff)
           /\ magnitude(VDifference(VSum(pre[1].position, ret.res.v), pre[2].position))
                  = RadiiAdded

\* detectCircleCircle was called on overlapping circles whose centres differ
\* in both coordinates
C8_Witness ==
    /\ CalledOn("detectCircleCircle")
    /\ WereCircles
    /\ CentreDiff.x # Zero /\ CentreDiff.y # Zero
    /\ Lt(CentreDistance, RadiiAdded)
    /\ ret.res.kind = "vector"
    /\ Gt(magnitude(ret.res.v), Zero)

\* The axes separatingAxis tests on the pair pre, and the penetration on each
TestedAxes == getAxes(pre[1], pre[2])
TestedPenetrations ==
    [i \in 1..Len(TestedAxes) |-> getPenetration(pre[1], pre[2], TestedAxes[i]).penetration]
Cross(a, b) == Sub(Mul(a.x, b.y), Mul(a.y, b.x))

\* C9: for every pair with at least one Polygon, separatingAxis returns false
\* if and only if some tested axis has penetration 0; otherwise it returns a
\* vector along a tested axis whose penetration is the minimum over the tested
\* axes, with that penetration as its magnitude, whatever the size of the
\* penetrations.  (Stated of the pairs whose penetrations are all numbers.)
C9_SATResult ==
    (/\ CalledOn("separatingAxis")
     /\ HadPolygon
     /\ \A i \in 1..Len(TestedPenetrations) : IsFinite(TestedPenetrations[i]))
        => /\ ret.res = False <=> \E i \in 1..Len(TestedPenetrations) : TestedPenetrations[i] = Zero
           /\ ret.res # False =>
                 /\ ret.res.kind = "vector"
                 /\ \E i \in 1..Len(TestedPenetrations) :
                       /\ \A j \in 1..Len(TestedPenetrations) :
                             Le(TestedPenetrations[i], TestedPenetrations[j])
                       /\ Cross(ret.res.v, TestedAxes[i]) = Zero
                       /\ magnitude(ret.res.v) = TestedPenetrations[i]

\* The message of the error separatingAxis throws on two bodies that are not polygons
InvalidArgument == Throws("One of the bodies must be a polygon to use the SAT")

\* C10: separatingAxis called with neither body a Polygon throws its error and
\* leaves both bodies as they were; detectCollision never ends in that error.
C10_InvalidArgument ==
    /\ (CalledOn("separatingAxis") /\ ~HadPolygon)
           => (ret.res = InvalidArgument /\ bodyA = pre[1] /\ bodyB = pre[2])
    /\ CalledOn("detectCollision") => ret.res # InvalidArgument

\* separatingAxis was called on two circles whose bounding boxes overlap, a
\* pair detectCollision gets past its bounding-box test with
C10_Witness ==
    /\ CalledOn("separatingAxis")
    /\ WereCircles
    /\ detectBoxBox(boundingBox(pre[1]), boundingBox(pre[2]))
    /\ ret.res.kind = "error"

\* m1 * v1 + m2 * v2 and m1 * |v1|^2 + m2 * |v2|^2 of a pair with the given velocities
Momentum(m1, v1, m2, v2) == VSum(multipliedBy(v1, m1), multipliedBy(v2, m2))
KineticEnergy(m1, v1, m2, v2) == Add(Mul(m1, magnitudePow2(v1)), Mul(m2, magnitudePow2(v2)))
\* The squares of a velocity's components stay within the integers of the
\* model when its numerators and denominators are at most MaxSquared
MaxSquared == 200
Squarable(v) ==
    /\ FiniteVec(v)
    /\ Abs(v.x.n) <= MaxSquared /\ v.x.d <= MaxSquared
    /\ Abs(v.y.n) <= MaxSquared /\ v.y.d <= MaxSquared
Conserved(m1, m2, v1, v2, after) ==
    /\ Momentum(m1, v1, m2, v2) = Momentum(m1, after.a, m2, after.b)
    /\ (Squarable(after.a) /\ Squarable(after.b)) =>
           KineticEnergy(m1, v1, m2, v2) = KineticEnergy(m1, after.a, m2, after.b)
Dynamic(A, B) ==
    /\ ~A.isStatic /\ ~B.isStatic
    /\ FiniteVec(A.position) /\ FiniteVec(B.position) /\ A.position # B.position

\* C11: the elastic response conserves momentum and kinetic energy: for two
\* colliding dynamic bodies at distinct positions, the velocities getNewVelocities
\* returns, and the velocities resolveCollision writes, have the same
\* m1*v1 + m2*v2 and the same m1*|v1|^2 + m2*|v2|^2 as the velocities before
\* (the energies compared where the squares stay within the model's integers).
C11_Conservation ==
    /\ (ret.res.kind = "vector" /\ Dynamic(pre[1], pre[2])) =>
           Conserved(pre[1].mass, pre[2].mass, pre[1].velocity, pre[2].velocity,
                     getNewVelocities(pre[1], pre[2]))
    /\ (Resolved /\ Dynamic(pre[1], pre[2]) /\ Dynamic(bodyA, bodyB)) =>
           Conserved(pre[1].mass, pre[2].mass, pre[1].velocity, pre[2].velocity,
                     [a |-> bodyA.velocity, b |-> bodyB.velocity])

\* resolveCollision resolved two dynamic bodies of different masses and
\* changed both velocities
C11_Witness ==
    /\ Resolved
    /\ Dynamic(pre[1], pre[2]) /\ Dynamic(bodyA, bodyB)
    /\ pre[1].mass # pre[2].mass
    /\ bodyA.velocity # pre[1].velocity
    /\ bodyB.velocity # pre[2].velocity
    /\ Squarable(bodyA.velocity) /\ Squarable(bodyB.velocity)

\* C12: bounding-box overlap is symmetric: for all boxes A and B of
\* non-negative width and height, detectBoxBox(A, B) = detectBoxBox(B, A).
C12_BoxSymmetry ==
    CalledOn("detectBoxBox") => ret.res = detectBoxBox(pre[2], pre[1])

\* detectBoxBox found two different boxes overlapping, one not inside the other
C12_Witness ==
    /\ CalledOn("detectBoxBox")
    /\ ret.res = TRUE
    /\ Lt(pre[1].x, pre[2].x) /\ Lt(pre[1].y, pre[2].y)
    /\ Lt(Add(pre[1].x, pre[1].w), Add(pre[2].x, pre[2].w))

\* The bounding boxes of the pair pre do not overlap
BoxesApart == ~detectBoxBox(boundingBox(pre[1]), boundingBox(pre[2]))

\* C13: whenever the two bodies' bounding boxes are disjoint or merely touch,
\* detectCollision returns false whatever the narrow phase would give, and
\* resolveCollision changes neither body.
C13_BroadPhase ==
    BoxesApart =>
        /\ CalledOn("detectCollision") => ret.res = False
        /\ CalledOn("resolveCollision") =>
               (ret.res = False /\ bodyA = pre[1] /\ bodyB = pre[2])

\* resolveCollision was called on a pair whose boxes only touch and which the
\* narrow phase alone reports as colliding
C13_Witness ==
    /\ CalledOn("resolveCollision")
    /\ BoxesApart
    /\ detectCollisionNarrow(pre[1], pre[2]).kind = "vector"
    /\ ret.res = False

----------------------------------------------------------------------------
(* Claims about World *)

\* The number of references to body b in all the worlds' bodies arrays
RECURSIVE Occurrences(_, _)
Occurrences(w, b) ==
    IF w = 0 THEN 0 ELSE updatesOf(world[w].bodies, b) + Occurrences(w - 1, b)

\* C14: exclusive ownership: after any sequence of World constructions and
\* addBody calls, every body occurs at most once in all the worlds' bodies
\* arrays together, and only in the world its back-reference names; so a world
\* step updates each of the world's bodies exactly once.
C14_ExclusiveOwnership ==
    \A b \in BodyIds :
        /\ Occurrences(NumWorlds, b) <= 1
        /\ \A w \in WorldIds : updatesOf(world[w].bodies, b) > 0 => body[b].world = w
        /\ hist.op = "update" => hist.updates[b] <= 1

\* The array without its element at index i (1-based)
Without(bodies, i) == [j \in 1..(Len(bodies) - 1) |-> IF j < i THEN bodies[j] ELSE bodies[j + 1]]
Tagged(bodies, tag) == {i \in 1..Len(bodies) : body[bodies[i]].tag = tag}

\* C15: removeBody(tag), called on a world with exactly one body of that tag,
\* removes that body and no other and keeps the others in their order,
\* wherever the body is in the array; with no body of that tag the array stays
\* as it was.
C15_RemoveBody ==
    hist.op = "removeBody" =>
        /\ Cardinality(Tagged(hist.before, hist.tag)) = 1 =>
               \E i \in Tagged(hist.before, hist.tag) :
                   world[hist.world].bodies = Without(hist.before, i)
        /\ Tagged(hist.before, hist.tag) = {} => world[hist.world].bodies = hist.before

----------------------------------------------------------------------------
(* Claims about a body's setters and its integrator *)

\* C16: rotational inertia tracks mass: assigning a new mass to a Circle after
\* its construction completes without an error and leaves rotationalInertia =
\* (1/2) * newMass * radius^2; so rotationalInertia = (1/2) * mass * radius^2
\* in every reachable state of a Circle.
C16_InertiaTracksMass ==
    body.type = "circle" =>
        /\ hist.op = "mass" => hist.threw = "none"
        /\ body.rotationalInertia = Mul(Mul(Half, body.mass), Mul(body.radius, body.radius))

\* C17: in every reachable state a body whose isStatic is true has zero
\* acceleration and zero angular acceleration, also a body that was made
\* static after it had been updated as a dynamic body.
C17_StaticAtRest ==
    body.isStatic => (body.acceleration = ZeroVec /\ body.angularAcceleration = Zero)

\* C18: the integrator never throws: update(), applyForce and applyTorque
\* return in every reachable state of a body, static or dynamic, added to a
\* World or not.
C18_IntegratorNeverThrows ==
    hist.op \in {"update", "applyForce", "applyTorque"} => hist.threw = "none"

----------------------------------------------------------------------------
(* Claims about Polygon *)

\* The polygon now is the polygon then, displaced as a whole by the vector
\* its position was displaced by, and its sides join its vertices in order
RigidlyMoved(now, then, displacement) ==
    /\ VDifference(now.centroid, then.centroid) = displacement
    /\ Len(now.vertices) = Len(then.vertices)
    /\ \A i \in 1..Len(now.vertices) :
          /\ VDifference(now.vertices[i], then.vertices[i]) = displacement
          /\ sides(now)[i].pointA = now.vertices[i]
          /\ sides(now)[i].pointB = now.vertices[(i % Len(now.vertices)) + 1]
MovedAsOne(now, then) ==
    now.type = "polygon" =>
        RigidlyMoved(now, then, VDifference(now.position, then.position))

SameCycle(a, b) ==
    /\ Len(a) = Len(b)
    /\ \E k \in 0..(Len(a) - 1) : \A i \in 1..Len(a) : a[i] = b[((i + k - 1) % Len(a)) + 1]

\* C20: sortVertices is independent of the order of its input: for any vertex
\* set, every permutation of the input array gives the same cyclic sequence of
\* vertices, up to the index it starts at.
C20_SortOrderIndependent ==
    CalledOn("sortVertices") =>
        \A other \in Reordered(bodyA) :
            SameCycle(ret.res, sortVertices(other, getCentroid(other)))

----------------------------------------------------------------------------
(* Claims about gravity *)

\* C21: gravity is mass-independent: two dynamic bodies of different finite
\* positive masses, with the same initial position and velocity, no local
\* force and no world force, in worlds of the same gravity, have identical
\* velocity and position after every number of update() calls.
C21_GravityMassIndependent ==
    CalledOn("update") =>
        (bodyA.velocity = bodyB.velocity /\ bodyA.position = bodyB.position)

----------------------------------------------------------------------------
(* Claims about the lists of forces and torques *)

\* The list now is the list before with one entry equal to x taken out
OneRemoved(now, before, x) ==
    \E i \in 1..Len(before) : before[i] = x /\ now = RemoveAt(before, i)

\* C22: for every interleaving of applications and timer firings, when the
\* timer of applyForce(F, t) fires exactly the entry F is removed from the
\* forces list and every other entry, applied earlier or later, with or
\* without a timeout, remains; likewise for applyTorque and the torques list.
C22_ListExpiry ==
    /\ hist.op = "forceTimer" =>
          (OneRemoved(body.forces, hist.before.forces, hist.entry)
           /\ body.torques = hist.before.torques)
    /\ hist.op = "torqueTimer" =>
          (OneRemoved(body.torques, hist.before.torques, hist.entry)
           /\ body.forces = hist.before.forces)

----------------------------------------------------------------------------
(* Claims about the choice of the axis *)

\* The penetration on tested axis i is the smallest of all
IsSmallest(i) ==
    \A j \in 1..Len(TestedPenetrations) : Le(TestedPenetrations[i], TestedPenetrations[j])

\* The first tested axis, in axis order, whose penetration is the smallest
FirstSmallest ==
    CHOOSE i \in 1..Len(TestedPenetrations) :
        IsSmallest(i) /\ \A j \in 1..(i - 1) : ~IsSmallest(j)

\* The vector for tested axis i: along the axis, as long as its penetration,
\* turned round when bodyB is the body in front
VectorOnAxis(i) ==
    mtvToward(getPenetration(pre[1], pre[2], TestedAxes[i]).body,
              setMagnitude(TestedAxes[i], TestedPenetrations[i]))

\* separatingAxis was called on a pair with a polygon whose penetrations are
\* all positive numbers
Penetrating ==
    /\ CalledOn("separatingAxis")
    /\ HadPolygon
    /\ \A i \in 1..Len(TestedPenetrations) :
          IsFinite(TestedPenetrations[i]) /\ Gt(TestedPenetrations[i], Zero)

----------------------------------------------------------------------------
(* Claims about resolution and detection *)

\* C24: resolveCollision is a no-op without a collision: whenever
\* detectCollision(bodyA, bodyB) reports false, resolveCollision(bodyA, bodyB)
\* leaves position, velocity, angle and every other field of both bodies
\* unchanged.
C24_NoCollisionNoChange ==
    (CalledOn("resolveCollision") /\ detectCollision(pre[1], pre[2]) = False)
        => (bodyA = pre[1] /\ bodyB = pre[2])

\* resolveCollision was called on two dynamic bodies whose bounding boxes
\* overlap and which do not collide
C24_Witness ==
    /\ CalledOn("resolveCollision")
    /\ ~BoxesApart
    /\ detectCollision(pre[1], pre[2]) = False
    /\ ~pre[1].isStatic /\ ~pre[2].isStatic
    /\ bodyA = pre[1] /\ bodyB = pre[2]


\* The pair as it is now can be handed to the detection: positions are
\* numbers and every square root the detection takes is rational
Detectable == FiniteVec(bodyA.position) /\ FiniteVec(bodyB.position) /\ ExactPair(bodyA, bodyB)

\* C25: resolution separates: after resolveCollision(bodyA, bodyB) has
\* resolved a collision in which at least one body is dynamic, an immediately
\* following detectCollision(bodyA, bodyB) reports false, so a second
\* consecutive resolveCollision changes neither positions nor velocities.
C25_ResolutionSeparates ==
    (Resolved /\ (~pre[1].isStatic \/ ~pre[2].isStatic) /\ Detectable)
        => /\ detectCollision(bodyA, bodyB) = False
           /\ resolveCollision(bodyA, bodyB).pair = [a |-> bodyA, b |-> bodyB]


\* C26: when resolveCollision resolves a collision between a dynamic body and
\* a static body (mass Infinity) whose positions differ, the velocity written
\* to the dynamic body has finite components (never NaN or infinite).
C26_FiniteVelocity ==
    (Resolved /\ pre[1].position # pre[2].position)
        => /\ (~pre[1].isStatic /\ pre[2].isStatic) => FiniteVec(bodyA.velocity)
           /\ (pre[1].isStatic /\ ~pre[2].isStatic) => FiniteVec(bodyB.velocity)

----------------------------------------------------------------------------
(* Claims about Engine *)

\* C27: single engine loop: after any sequence of Engine.run() and pause()
\* calls interleaved with frame callbacks, at most one frame callback for
\* Engine.update is pending at any time, so each world is updated at most
\* once per animation frame.
C27_SingleLoop ==
    /\ Len(timers) <= 1
    /\ hist.op = "frame" => hist.updates <= 1

----------------------------------------------------------------------------
(* Claims about mass and isStatic *)

\* C28: in every state reachable through the constructor and the mass and
\* isStatic setters, a body's mass is Infinity if and only if its isStatic is
\* true.
C28_StaticIffInfiniteMass == (body.mass = Infinity) <=> body.isStatic


====
